---- MODULE Spec2Model ----
(***************************************************************************)
(* DebtFlow (src/src/app/page.tsx): the ledger state of the App component  *)
(* (bets, settings, payments, bankedMilestones, cards), its event          *)
(* handlers, and the two effects React runs after every commit (save, then *)
(* auto bank).  A handler's state updates commit as one step and set       *)
(* pending; the effects then run (runEffects) before the next event is     *)
(* handled.                                                                *)
(*                                                                         *)
(* The specifications share the state and the actions and differ in the    *)
(* inputs they draw: Spec (bets, banking, auto-bank settings), SpecCards   *)
(* (card list and auto-bank target), SpecPenny (penny targets), SpecBets   *)
(* (bet lifecycle over wider form inputs), SpecStats (statistics over      *)
(* stored bet lists), SpecDebt (debt overview: cards, legacy total, quick  *)
(* bank), SpecCardOps (card handlers alone), SpecRun (roller settings).    *)
(*                                                                         *)
(* Money is held in whole pence, decimal odds in hundredths, so that       *)
(* +(x).toFixed(2) is rounding to the nearest penny.  Timestamps are       *)
(* abstracted to "set" (Stamp) or null.  The fields of a record that no    *)
(* computation reads (date, description, sport, createdAt, updatedAt) are  *)
(* left out.                                                               *)
(***************************************************************************)
EXTENDS Integers, Sequences, FiniteSets

\* ---------------------------------------------------------------- bounds
\* bets kept at once, payments a user may bank while that many are listed
\* (the auto-bank effect is not limited), cards ever created
MaxBets == 1
MaxPayments == 1
MaxCardIds == 2
\* bets of a stored list the statistics runs start from
MaxStatsBets == 2

\* ------------------------------------------------------- input domains
Null == -1
Stamp == 1
Statuses == {"Pending", "Won", "Lost"}
\* the cards runs add winning bets only
CardStatuses == {"Won"}
Descriptions == {"", "A"}
\* form (stake, oddsDecimal) pairs and overrides: the ledger runs use one
\* profile (a win is a profit of 250.00), the bet-lifecycle runs a wider set
LedgerForms == {<<10000, 350>>}
LedgerOverrides == {Null}
FormBets == {<<10000, 350>>, <<5, 150>>, <<1000, 200>>}
FormOverrides == {Null, 0, 5000}
EditorOverrides == {Null, 0, 5000}
TargetInputs == {0, 10000}
PennyTargets == {1, 10000}
PercentInputs == {0, 50}
PennyPercents == {25, 50}
QuickAmounts == {0, 10000}
QuickSources == {"Betting", "Savings"}
NewCardBalances == {0, 20000}
\* stored bet lists and targets the statistics runs start from
StatsForms == {<<1000, 200>>, <<5, 150>>}
StatsTargets == {-100, 0, 3000, 10000}
\* debt runs: the stored legacy total, the inline card edits, the quick bank
DebtTotals == {0, 20000}
EditBalances == {-500, 10000}
EditNames == {"", "B"}
DebtAmounts == {5000, 30000}
DebtSources == {"Savings", "Trading"}
\* roller runs: the Starting bankroll, Run start and Run target inputs
BankrollInputs == {500, 1500, 5250, 10000}
RunStakeInputs == {500, 10000}

NoteAuto == "Auto bank on target"
NoteManual == "Manual bank"
NoteNone == ""

VARIABLES bets, settings, payments, bankedMilestones, cards,
          saved, pending, nextCardId, emissions, fresh

vars == <<bets, settings, payments, bankedMilestones, cards,
          saved, pending, nextCardId, emissions, fresh>>

\* ------------------------------------------------------------ utilities
\* Number.prototype.toFixed(2) of num/den pounds-in-pence: nearest integer,
\* ties away from zero (den > 0).
RoundFixed(num, den) ==
  IF num >= 0 THEN (2 * num + den) \div (2 * den)
  ELSE -((2 * (-num) + den) \div (2 * den))

\* Math.round(num/den): nearest integer, ties towards +infinity (den > 0).
MathRound(num, den) == (2 * num + den) \div (2 * den)

Min(a, b) == IF a < b THEN a ELSE b
Max(a, b) == IF a > b THEN a ELSE b

RECURSIVE SeqSum(_)
SeqSum(s) == IF s = <<>> THEN 0 ELSE Head(s) + SeqSum(Tail(s))

SeqMap(Op(_), s) == [i \in DOMAIN s |-> Op(s[i])]

\* Array.prototype.filter
SeqFilter(s, Keep(_)) == SelectSeq(s, Keep)

Ids(s) == {s[i].id : i \in DOMAIN s}

\* uuid(): an id no live bet / payment carries.  Ids of removed bets and
\* payments are held nowhere, so the smallest free one stands for a fresh one;
\* card ids outlive their card (settings.autoBankCardId, payment.cardId) and
\* are numbered by nextCardId, never reused.
FreshId(s) == CHOOSE n \in 1..(Len(s) + 1) : n \notin Ids(s)

\* --------------------------------------------------------- pure functions
calcDefaultReturn(stake, oddsDecimal, status) ==
  IF status = "Won" THEN RoundFixed(stake * oddsDecimal, 100)
  ELSE IF status = "Lost" THEN 0
  ELSE Null

\* mutant: the override is tested for truthiness, so an override of 0 is lost
effectiveReturn_truthy(b) ==
  IF b.returnOverride # Null /\ b.returnOverride # 0 THEN b.returnOverride
  ELSE calcDefaultReturn(b.stake, b.oddsDecimal, b.status)

effectiveReturn(b) ==
  IF b.returnOverride # Null THEN b.returnOverride
  ELSE calcDefaultReturn(b.stake, b.oddsDecimal, b.status)

IsSettled(b) == b.status # "Pending"
IsWon(b) == b.status = "Won"
StakeOf(b) == b.stake
ReturnOrZero(b) == IF effectiveReturn(b) = Null THEN 0 ELSE effectiveReturn(b)

\* mutant: Pending bets are not filtered out
computeStats_all(bs, targetAmount) ==
  LET settled == bs
      won == SeqFilter(settled, IsWon)
      totalStaked == SeqSum(SeqMap(StakeOf, settled))
      totalReturns == SeqSum(SeqMap(ReturnOrZero, settled))
      profit == totalReturns - totalStaked
      hitRate == IF Len(settled) # 0 THEN MathRound(Len(won) * 100, Len(settled)) ELSE 0
      rawProgress == IF targetAmount > 0 THEN MathRound(profit * 100, targetAmount) ELSE 0
      progress == Min(100, Max(0, rawProgress))
  IN [settledCount |-> Len(settled), wonCount |-> Len(won), hitRate |-> hitRate,
      totalStaked |-> totalStaked, totalReturns |-> totalReturns,
      profit |-> profit, progress |-> progress]

\* mutant: the raw progress is returned without the clamp
computeStats_noClamp(bs, targetAmount) ==
  LET settled == SeqFilter(bs, IsSettled)
      won == SeqFilter(settled, IsWon)
      totalStaked == SeqSum(SeqMap(StakeOf, settled))
      totalReturns == SeqSum(SeqMap(ReturnOrZero, settled))
      profit == totalReturns - totalStaked
      hitRate == IF Len(settled) # 0 THEN MathRound(Len(won) * 100, Len(settled)) ELSE 0
      rawProgress == IF targetAmount > 0 THEN MathRound(profit * 100, targetAmount) ELSE 0
  IN [settledCount |-> Len(settled), wonCount |-> Len(won), hitRate |-> hitRate,
      totalStaked |-> totalStaked, totalReturns |-> totalReturns,
      profit |-> profit, progress |-> rawProgress]

\* mutant: the hit rate divides by the number of listed bets
computeStats_hitOverAll(bs, targetAmount) ==
  LET settled == SeqFilter(bs, IsSettled)
      won == SeqFilter(settled, IsWon)
      totalStaked == SeqSum(SeqMap(StakeOf, settled))
      totalReturns == SeqSum(SeqMap(ReturnOrZero, settled))
      profit == totalReturns - totalStaked
      hitRate == IF Len(bs) # 0 THEN MathRound(Len(won) * 100, Len(bs)) ELSE 0
      rawProgress == IF targetAmount > 0 THEN MathRound(profit * 100, targetAmount) ELSE 0
      progress == Min(100, Max(0, rawProgress))
  IN [settledCount |-> Len(settled), wonCount |-> Len(won), hitRate |-> hitRate,
      totalStaked |-> totalStaked, totalReturns |-> totalReturns,
      profit |-> profit, progress |-> progress]

\* Amounts are whole pence, so +(totalReturns - totalStaked).toFixed(2) is the
\* difference itself.
computeStats(bs, targetAmount) ==
  LET settled == SeqFilter(bs, IsSettled)
      won == SeqFilter(settled, IsWon)
      totalStaked == SeqSum(SeqMap(StakeOf, settled))
      totalReturns == SeqSum(SeqMap(ReturnOrZero, settled))
      profit == totalReturns - totalStaked
      hitRate == IF Len(settled) # 0 THEN MathRound(Len(won) * 100, Len(settled)) ELSE 0
      rawProgress == IF targetAmount > 0 THEN MathRound(profit * 100, targetAmount) ELSE 0
      progress == Min(100, Max(0, rawProgress))
  IN [settledCount |-> Len(settled), wonCount |-> Len(won), hitRate |-> hitRate,
      totalStaked |-> totalStaked, totalReturns |-> totalReturns,
      profit |-> profit, progress |-> progress]

sumPayments(pays, source) ==
  LET Amt(p) == IF source # "" THEN (IF p.source = source THEN p.amount ELSE 0) ELSE p.amount
  IN SeqSum(SeqMap(Amt, pays))

sumPaymentsToCard(pays, cardId) ==
  LET Amt(p) == IF p.cardId = cardId THEN p.amount ELSE 0
  IN SeqSum(SeqMap(Amt, pays))

\* c.balance || 0
BalanceOrZero(c) == IF c.balance = 0 THEN 0 ELSE c.balance

totalDebt(cs, fallbackDebtTotal) ==
  IF Len(cs) = 0 THEN fallbackDebtTotal
  ELSE SeqSum(SeqMap(BalanceOrZero, cs))

\* mutant: the clamp at 0 is applied to the whole list, not to each card
remainingDebtFromCards_pooled(cs, pays) ==
  LET Rem(c) == c.balance - sumPaymentsToCard(pays, c.id)
  IN Max(0, SeqSum(SeqMap(Rem, cs)))

remainingDebtFromCards(cs, pays) ==
  LET Rem(c) == Max(0, c.balance - sumPaymentsToCard(pays, c.id))
  IN SeqSum(SeqMap(Rem, cs))

\* ------------------------------------------------------- derived values
stats == computeStats(bets, settings.targetAmount)
bankedFromBetting == sumPayments(payments, "Betting")
availableProfitBetting == stats.profit - bankedFromBetting

\* Debt overview, driven by the cards if any exist
debtTotalEffective == totalDebt(cards, settings.debtTotal)
paidTotal == sumPayments(payments, "")

\* mutant: without cards only the payments that name no card are subtracted
remainingTotal_unearmarked ==
  IF Len(cards) # 0 THEN remainingDebtFromCards(cards, payments)
  ELSE Max(0, settings.debtTotal - sumPaymentsToCard(payments, Null))

remainingTotal ==
  IF Len(cards) # 0 THEN remainingDebtFromCards(cards, payments)
  ELSE Max(0, settings.debtTotal - paidTotal)

paidShown == debtTotalEffective - remainingTotal

debtProgress ==
  IF debtTotalEffective > 0
  THEN Min(100, MathRound(paidShown * 100, debtTotalEffective))
  ELSE 0

\* Roller (challenge) progress
currentBankroll == settings.startingBankroll + stats.profit
runStart == IF settings.runStartStake = Null THEN 500 ELSE settings.runStartStake
runTarget == IF settings.runTargetStake = Null THEN 10000 ELSE settings.runTargetStake

\* mutant: the percentage is returned without the clamp
runProgress_noClamp ==
  LET denom == runTarget - runStart
  IN IF denom <= 0 THEN 0
     ELSE MathRound((currentBankroll - runStart) * 100, denom)

runProgress ==
  LET denom == runTarget - runStart
  IN IF denom <= 0 THEN 0
     ELSE Min(100, Max(0, MathRound((currentBankroll - runStart) * 100, denom)))

\* the Cards section's figures of one card
paidToCard(c) == sumPaymentsToCard(payments, c.id)
cardRemaining(c) == Max(0, c.balance - paidToCard(c))

\* The save effect's payload; of { bets, settings, payments, bankedMilestones,
\* cards } the model keeps the two fields the auto-bank effect writes.
Snapshot == [payments |-> payments, bankedMilestones |-> bankedMilestones]

DEFAULTS ==
  [debtTotal |-> 0, startingBankroll |-> 500, targetAmount |-> 10000,
   bankPercentOnTarget |-> 50, autoBankEnabled |-> TRUE, autoBankCardId |-> Null,
   runStartStake |-> 500, runTargetStake |-> 10000]

Init ==
  /\ bets = <<>>
  /\ settings = DEFAULTS
  /\ payments = <<>>
  /\ bankedMilestones = 0
  /\ cards = <<>>
  /\ saved = [payments |-> <<>>, bankedMilestones |-> 0]
  /\ pending = TRUE
  /\ nextCardId = 1
  /\ emissions = [total |-> 0, top |-> 0, disjoint |-> TRUE]
  /\ fresh = [id |-> Null, phase |-> "none"]

\* ------------------------------------------------------------- handlers
\* Ghost fresh: the payment the latest auto-bank firing emitted, while bets,
\* settings and the other payments are as they were at that firing
\* (phase "fired"); "deleted" once removePayment has removed that payment,
\* "reevaluated" once the effects have run again after that removal.
FreshCleared == [id |-> Null, phase |-> "none"]

addBet(description, form, status, returnOverride) ==
  /\ ~pending
  /\ Len(bets) < MaxBets
  /\ IF description = ""
     THEN UNCHANGED vars
     ELSE LET bet == [id |-> FreshId(bets),
                      stake |-> form[1],
                      oddsDecimal |-> form[2],
                      status |-> status,
                      returnOverride |-> IF returnOverride = Null \/ returnOverride = 0
                                         THEN Null ELSE returnOverride,
                      settledAt |-> IF status # "Pending" THEN Stamp ELSE Null]
          IN /\ bets' = <<bet>> \o bets
             /\ pending' = TRUE
             /\ fresh' = FreshCleared
             /\ UNCHANGED <<settings, payments, bankedMilestones, cards, saved,
                            nextCardId, emissions>>

\* { ...b, ...patch, settledAt: patch.status && patch.status !== "Pending" ? now : b.settledAt }
PatchBet(b, patch) ==
  [b EXCEPT !.status = IF "status" \in DOMAIN patch THEN patch.status ELSE @,
            !.returnOverride = IF "returnOverride" \in DOMAIN patch
                               THEN patch.returnOverride ELSE @,
            !.settledAt = IF "status" \in DOMAIN patch /\ patch.status # "Pending"
                          THEN Stamp ELSE @]

updateBet(id, patch) ==
  /\ ~pending
  /\ id \in Ids(bets)
  /\ bets' = [i \in DOMAIN bets |-> IF bets[i].id = id THEN PatchBet(bets[i], patch) ELSE bets[i]]
  /\ pending' = TRUE
  /\ fresh' = FreshCleared
  /\ UNCHANGED <<settings, payments, bankedMilestones, cards, saved, nextCardId, emissions>>

\* StatusControl onChange
setStatus(id, v) == updateBet(id, [status |-> v])

\* saveReturnEditor: empty text is null, anything else cleanNumber(text)
saveReturnEditor(id, override) == updateBet(id, [returnOverride |-> override])

removeBet(id) ==
  /\ ~pending
  /\ id \in Ids(bets)
  /\ LET Keep(b) == b.id # id IN bets' = SeqFilter(bets, Keep)
  /\ pending' = TRUE
  /\ fresh' = FreshCleared
  /\ UNCHANGED <<settings, payments, bankedMilestones, cards, saved, nextCardId, emissions>>

\* New value of payments after bankPayment(amount, source, note, cardId)
bankPayment(amount, source, note, cardId) ==
  IF amount <= 0 THEN payments
  ELSE <<[id |-> FreshId(payments), amount |-> amount, source |-> source,
          note |-> note, cardId |-> cardId]>> \o payments

\* mutant: the Betting source is not checked against the available profit
quickBank_noCheck(amt, qSource, qCard) ==
  /\ ~pending
  /\ Len(payments) < MaxPayments
  /\ IF amt <= 0
     THEN UNCHANGED vars
     ELSE /\ payments' = bankPayment(amt, qSource, NoteNone, qCard)
          /\ pending' = TRUE
          /\ fresh' = FreshCleared
          /\ UNCHANGED <<bets, settings, bankedMilestones, cards, saved, nextCardId, emissions>>

quickBank(amt, qSource, qCard) ==
  /\ ~pending
  /\ Len(payments) < MaxPayments
  /\ IF (qSource = "Betting" /\ amt > availableProfitBetting) \/ amt <= 0
     THEN UNCHANGED vars
     ELSE /\ payments' = bankPayment(amt, qSource, NoteNone, qCard)
          /\ pending' = TRUE
          /\ fresh' = FreshCleared
          /\ UNCHANGED <<bets, settings, bankedMilestones, cards, saved, nextCardId, emissions>>

perMilestoneOf(s) == RoundFixed(s.targetAmount * s.bankPercentOnTarget, 100)

\* mutant: the availability check is missing
bankFromBettingNow_noCheck ==
  /\ ~pending
  /\ Len(payments) < MaxPayments
  /\ LET perMilestone == perMilestoneOf(settings)
         targetCard == settings.autoBankCardId
     IN IF perMilestone <= 0
        THEN UNCHANGED vars
        ELSE /\ payments' = bankPayment(perMilestone, "Betting", NoteManual, targetCard)
             /\ pending' = TRUE
             /\ fresh' = FreshCleared
             /\ UNCHANGED <<bets, settings, bankedMilestones, cards, saved, nextCardId, emissions>>

bankFromBettingNow ==
  /\ ~pending
  /\ Len(payments) < MaxPayments
  /\ LET perMilestone == perMilestoneOf(settings)
         targetCard == settings.autoBankCardId
     IN IF perMilestone <= 0 \/ availableProfitBetting < perMilestone
        THEN UNCHANGED vars
        ELSE /\ payments' = bankPayment(perMilestone, "Betting", NoteManual, targetCard)
             /\ pending' = TRUE
             /\ fresh' = FreshCleared
             /\ UNCHANGED <<bets, settings, bankedMilestones, cards, saved, nextCardId, emissions>>

\* mutant: deleting a payment resets the milestone counter
removePayment_unfire(id) ==
  /\ ~pending
  /\ id \in Ids(payments)
  /\ LET Keep(p) == p.id # id IN payments' = SeqFilter(payments, Keep)
  /\ bankedMilestones' = 0
  /\ pending' = TRUE
  /\ fresh' = IF fresh.phase = "fired" /\ fresh.id = id
              THEN [id |-> Null, phase |-> "deleted"] ELSE FreshCleared
  /\ UNCHANGED <<bets, settings, cards, saved, nextCardId, emissions>>

removePayment(id) ==
  /\ ~pending
  /\ id \in Ids(payments)
  /\ LET Keep(p) == p.id # id IN payments' = SeqFilter(payments, Keep)
  /\ pending' = TRUE
  /\ fresh' = IF fresh.phase = "fired" /\ fresh.id = id
              THEN [id |-> Null, phase |-> "deleted"] ELSE FreshCleared
  /\ UNCHANGED <<bets, settings, bankedMilestones, cards, saved, nextCardId, emissions>>

\* ---------------------------------------------------------------- cards
\* AddCardForm: b = cleanNumber(bal); if (!name || b <= 0) return; onAdd(...)
addCard(name, b) ==
  /\ ~pending
  /\ nextCardId <= MaxCardIds
  /\ IF name = "" \/ b <= 0
     THEN UNCHANGED vars
     ELSE /\ cards' = <<[id |-> nextCardId, name |-> name, balance |-> b]>> \o cards
          /\ nextCardId' = nextCardId + 1
          /\ pending' = TRUE
          /\ UNCHANGED <<bets, settings, payments, bankedMilestones, saved, emissions, fresh>>

\* mutant: removing a card also deletes the payments banked to it
removeCard_cascade(id) ==
  /\ ~pending
  /\ id \in Ids(cards)
  /\ LET Keep(c) == c.id # id IN cards' = SeqFilter(cards, Keep)
  /\ LET KeepPay(p) == p.cardId # id IN payments' = SeqFilter(payments, KeepPay)
  /\ pending' = TRUE
  /\ UNCHANGED <<bets, settings, bankedMilestones, saved, nextCardId, emissions, fresh>>

\* inline Name and Balance inputs of a listed card
editCardName(id, v) ==
  /\ ~pending
  /\ id \in Ids(cards)
  /\ cards' = [i \in DOMAIN cards |->
                 IF cards[i].id = id THEN [cards[i] EXCEPT !.name = v] ELSE cards[i]]
  /\ pending' = TRUE
  /\ UNCHANGED <<bets, settings, payments, bankedMilestones, saved, nextCardId, emissions, fresh>>

\* balance: cleanNumber(v), whatever its sign
editCardBalance(id, v) ==
  /\ ~pending
  /\ id \in Ids(cards)
  /\ cards' = [i \in DOMAIN cards |->
                 IF cards[i].id = id THEN [cards[i] EXCEPT !.balance = v] ELSE cards[i]]
  /\ pending' = TRUE
  /\ UNCHANGED <<bets, settings, payments, bankedMilestones, saved, nextCardId, emissions, fresh>>

removeCard(id) ==
  /\ ~pending
  /\ id \in Ids(cards)
  /\ LET Keep(c) == c.id # id IN cards' = SeqFilter(cards, Keep)
  /\ pending' = TRUE
  /\ UNCHANGED <<bets, settings, payments, bankedMilestones, saved, nextCardId, emissions, fresh>>

\* ------------------------------------------------------------- settings
setSettings(next) ==
  /\ ~pending
  /\ settings' = next
  /\ pending' = TRUE
  /\ fresh' = FreshCleared
  /\ UNCHANGED <<bets, payments, bankedMilestones, cards, saved, nextCardId, emissions>>

\* "Auto bank to" select: "none" is null, otherwise the id of a listed card
setAutoBankCardId(v) == setSettings([settings EXCEPT !.autoBankCardId = v])

setAutoBankEnabled(checked) == setSettings([settings EXCEPT !.autoBankEnabled = checked])

setTargetAmount(v) == setSettings([settings EXCEPT !.targetAmount = v])

setBankPercentOnTarget(v) ==
  setSettings([settings EXCEPT !.bankPercentOnTarget = Max(0, Min(100, v))])

setStartingBankroll(v) == setSettings([settings EXCEPT !.startingBankroll = v])

setRunStartStake(v) == setSettings([settings EXCEPT !.runStartStake = v])

setRunTargetStake(v) == setSettings([settings EXCEPT !.runTargetStake = v])

\* -------------------------------------------------------------- effects
\* cardId: settings.autoBankCardId || (cards[0]?.id ?? null)
\* mutant: the fallback is the last card of the list, not the first
autoBankTarget_last(s, cs) ==
  IF s.autoBankCardId # Null THEN s.autoBankCardId
  ELSE IF Len(cs) > 0 THEN cs[Len(cs)].id
  ELSE Null

autoBankTarget(s, cs) ==
  IF s.autoBankCardId # Null THEN s.autoBankCardId
  ELSE IF Len(cs) > 0 THEN cs[1].id
  ELSE Null

multiplesOf(available, target) == available \div target

\* count = multiples - bankedMilestones
newlyCrossed(s, available, counter) == multiplesOf(available, s.targetAmount) - counter

\* mutant: one milestone's amount is banked however many were crossed
totalToBank_single(s, available, counter) == perMilestoneOf(s)

totalToBank(s, available, counter) == perMilestoneOf(s) * newlyCrossed(s, available, counter)

\* mutant: the autoBankEnabled switch is not consulted
autoBankFires_ignoresEnabled(s, available, counter) ==
  /\ s.targetAmount > 0
  /\ s.bankPercentOnTarget > 0
  /\ multiplesOf(available, s.targetAmount) > counter
  /\ totalToBank(s, available, counter) > 0

\* Does the auto-bank effect reach its two setState calls?
autoBankFires(s, available, counter) ==
  /\ s.autoBankEnabled
  /\ s.targetAmount > 0
  /\ s.bankPercentOnTarget > 0
  /\ multiplesOf(available, s.targetAmount) > counter
  /\ totalToBank(s, available, counter) > 0

autoBankPayment(s, available, counter, cs, pays) ==
  [id |-> FreshId(pays), amount |-> totalToBank(s, available, counter),
   source |-> "Betting", note |-> NoteAuto, cardId |-> autoBankTarget(s, cs)]

\* mutant: the counter is set to the current multiples on every evaluation
autoBankCommit_resync(s, available, counter, cs, pays) ==
  IF autoBankFires(s, available, counter)
  THEN [payments |-> <<autoBankPayment(s, available, counter, cs, pays)>> \o pays,
        bankedMilestones |-> multiplesOf(available, s.targetAmount)]
  ELSE [payments |-> pays,
        bankedMilestones |-> IF s.autoBankEnabled /\ s.targetAmount > 0
                             THEN multiplesOf(available, s.targetAmount) ELSE counter]

\* mutant: the payment is committed, the counter update is lost
autoBankCommit_split(s, available, counter, cs, pays) ==
  IF autoBankFires(s, available, counter)
  THEN [payments |-> <<autoBankPayment(s, available, counter, cs, pays)>> \o pays,
        bankedMilestones |-> counter]
  ELSE [payments |-> pays, bankedMilestones |-> counter]

\* mutant: the counter advances by one per firing, not to multiples
autoBankCommit_oneStep(s, available, counter, cs, pays) ==
  IF autoBankFires(s, available, counter)
  THEN [payments |-> <<autoBankPayment(s, available, counter, cs, pays)>> \o pays,
        bankedMilestones |-> counter + 1]
  ELSE [payments |-> pays, bankedMilestones |-> counter]

\* The payments and bankedMilestones the auto-bank effect commits.
autoBankCommit(s, available, counter, cs, pays) ==
  IF autoBankFires(s, available, counter)
  THEN [payments |-> <<autoBankPayment(s, available, counter, cs, pays)>> \o pays,
        bankedMilestones |-> multiplesOf(available, s.targetAmount)]
  ELSE [payments |-> pays, bankedMilestones |-> counter]

\* One flush of the passive effects after a commit: the save effect writes the
\* committed state, then the auto-bank effect runs on the same render's values;
\* its two state updates are batched into one commit, which schedules the
\* next flush.  Ghost emissions: a firing whose payment was computed for count
\* milestones above the counter covers the range (counter, counter + count];
\* total is the sum of the range sizes, top the highest milestone covered,
\* disjoint whether every range so far started at or above the top before it.
runEffects ==
  /\ pending
  /\ saved' = Snapshot
  /\ LET out == autoBankCommit(settings, availableProfitBetting, bankedMilestones,
                               cards, payments)
         fired == out.payments # payments
     IN /\ payments' = out.payments
        /\ bankedMilestones' = out.bankedMilestones
        /\ pending' = (out.payments # payments \/ out.bankedMilestones # bankedMilestones)
        /\ emissions' =
             IF fired
             THEN LET count == newlyCrossed(settings, availableProfitBetting, bankedMilestones)
                  IN [total |-> emissions.total + count,
                      top |-> Max(emissions.top, bankedMilestones + count),
                      disjoint |-> emissions.disjoint /\ count > 0
                                   /\ bankedMilestones >= emissions.top]
             ELSE emissions
        /\ fresh' = IF fired THEN [id |-> out.payments[1].id, phase |-> "fired"]
                    ELSE IF fresh.phase = "deleted" THEN [id |-> Null, phase |-> "reevaluated"]
                    ELSE fresh
  /\ UNCHANGED <<bets, settings, cards, nextCardId>>

\* Ledger: bets, banking and the auto-bank settings, no cards
Next ==
  \/ \E d \in Descriptions, f \in LedgerForms, st \in Statuses, o \in LedgerOverrides :
       addBet(d, f, st, o)
  \/ \E id \in Ids(bets), v \in Statuses : setStatus(id, v)
  \/ \E id \in Ids(bets) : removeBet(id)
  \/ \E a \in QuickAmounts, src \in QuickSources : quickBank(a, src, Null)
  \/ bankFromBettingNow
  \/ \E id \in Ids(payments) : removePayment(id)
  \/ \E v \in BOOLEAN : setAutoBankEnabled(v)
  \/ \E v \in TargetInputs : setTargetAmount(v)
  \/ \E v \in PercentInputs : setBankPercentOnTarget(v)
  \/ runEffects

Spec == Init /\ [][Next]_vars

\* Cards: the card list and the auto-bank target, with bets to make it fire
NextCards ==
  \/ \E d \in Descriptions, f \in LedgerForms, st \in CardStatuses, o \in LedgerOverrides :
       addBet(d, f, st, o)
  \/ \E id \in Ids(bets) : removeBet(id)
  \/ \E id \in Ids(payments) : removePayment(id)
  \/ \E n \in Descriptions, b \in NewCardBalances : addCard(n, b)
  \/ \E id \in Ids(cards) : removeCard(id)
  \/ \E v \in {Null} \cup Ids(cards) : setAutoBankCardId(v)
  \/ runEffects

SpecCards == Init /\ [][NextCards]_vars

\* Penny targets: targets and percents whose per-milestone amount rounds to 0
NextPenny ==
  \/ \E d \in Descriptions, f \in LedgerForms, st \in Statuses, o \in LedgerOverrides :
       addBet(d, f, st, o)
  \/ \E id \in Ids(bets), v \in Statuses : setStatus(id, v)
  \/ \E id \in Ids(bets) : removeBet(id)
  \/ \E v \in PennyTargets : setTargetAmount(v)
  \/ \E v \in PennyPercents : setBankPercentOnTarget(v)
  \/ runEffects

SpecPenny == Init /\ [][NextPenny]_vars

\* Bet lifecycle: the bet handlers over the wider form inputs
NextBets ==
  \/ \E d \in Descriptions, f \in FormBets, st \in Statuses, o \in FormOverrides :
       addBet(d, f, st, o)
  \/ \E id \in Ids(bets), v \in Statuses : setStatus(id, v)
  \/ \E id \in Ids(bets), o \in EditorOverrides : saveReturnEditor(id, o)
  \/ \E id \in Ids(bets) : removeBet(id)
  \/ runEffects

SpecBets == Init /\ [][NextBets]_vars

\* Statistics: the app starts from a stored bet list and target
\* (initialFromStorage); the bets are then edited and removed.
StoredBet(i, n, c) ==
  [id |-> n - i + 1, stake |-> c[1][1], oddsDecimal |-> c[1][2], status |-> c[2],
   returnOverride |-> c[3], settledAt |-> IF c[2] # "Pending" THEN Stamp ELSE Null]

StoredBetLists ==
  UNION {{[i \in 1..n |-> StoredBet(i, n, c[i])] :
            c \in [1..n -> StatsForms \X Statuses \X EditorOverrides]} :
         n \in 0..MaxStatsBets}

InitStats ==
  /\ bets \in StoredBetLists
  /\ \E t \in StatsTargets : settings = [DEFAULTS EXCEPT !.targetAmount = t]
  /\ payments = <<>>
  /\ bankedMilestones = 0
  /\ cards = <<>>
  /\ saved = [payments |-> <<>>, bankedMilestones |-> 0]
  /\ pending = TRUE
  /\ nextCardId = 1
  /\ emissions = [total |-> 0, top |-> 0, disjoint |-> TRUE]
  /\ fresh = [id |-> Null, phase |-> "none"]

NextStats ==
  \/ \E d \in Descriptions, f \in StatsForms, st \in Statuses, o \in FormOverrides :
       addBet(d, f, st, o)
  \/ \E id \in Ids(bets), o \in EditorOverrides : saveReturnEditor(id, o)
  \/ \E id \in Ids(bets) : removeBet(id)
  \/ runEffects

SpecStats == InitStats /\ [][NextStats]_vars

\* Debt: the app starts with a stored legacy debtTotal (no input sets it);
\* cards are added, edited and removed and payments are banked by hand.
InitDebt ==
  /\ bets = <<>>
  /\ \E t \in DebtTotals : settings = [DEFAULTS EXCEPT !.debtTotal = t]
  /\ payments = <<>>
  /\ bankedMilestones = 0
  /\ cards = <<>>
  /\ saved = [payments |-> <<>>, bankedMilestones |-> 0]
  /\ pending = TRUE
  /\ nextCardId = 1
  /\ emissions = [total |-> 0, top |-> 0, disjoint |-> TRUE]
  /\ fresh = [id |-> Null, phase |-> "none"]

NextDebt ==
  \/ \E n \in Descriptions, b \in NewCardBalances : addCard(n, b)
  \/ \E id \in Ids(cards), v \in EditBalances : editCardBalance(id, v)
  \/ \E id \in Ids(cards) : removeCard(id)
  \/ \E a \in DebtAmounts, src \in DebtSources, c \in {Null} \cup Ids(cards) :
       quickBank(a, src, c)
  \/ \E id \in Ids(payments) : removePayment(id)
  \/ runEffects

SpecDebt == InitDebt /\ [][NextDebt]_vars

\* Roller: bets move the bankroll, the three roller settings are edited
NextRun ==
  \/ \E d \in Descriptions, f \in StatsForms, st \in Statuses, o \in LedgerOverrides :
       addBet(d, f, st, o)
  \/ \E id \in Ids(bets) : removeBet(id)
  \/ \E v \in BankrollInputs : setStartingBankroll(v)
  \/ \E v \in RunStakeInputs : setRunStartStake(v)
  \/ \E v \in RunStakeInputs : setRunTargetStake(v)
  \/ runEffects

SpecRun == Init /\ [][NextRun]_vars

\* Card operations alone: the AddCardForm, the inline edits, the remove button
NextCardOps ==
  \/ \E n \in Descriptions, b \in NewCardBalances : addCard(n, b)
  \/ \E id \in Ids(cards), v \in EditNames : editCardName(id, v)
  \/ \E id \in Ids(cards), v \in EditBalances : editCardBalance(id, v)
  \/ \E id \in Ids(cards) : removeCard(id)
  \/ runEffects

SpecCardOps == Init /\ [][NextCardOps]_vars

\* ================================================================ claims
\* The claims restate the arithmetic from the specification's wording:
\* round to 2 decimals is (x + 50) \div 100 on hundredths of a penny.
Round2(x) == IF x >= 0 THEN (x + 50) \div 100 ELSE -((50 - x) \div 100)
ClaimPerMilestone == Round2(settings.targetAmount * settings.bankPercentOnTarget)
ClaimMultiples == availableProfitBetting \div settings.targetAmount

\* payments grew by exactly one payment, at the head, with this source and amount
OnePaymentAdded(old, new, source, amount) ==
  /\ Len(new) = Len(old) + 1
  /\ Tail(new) = old
  /\ new[1].source = source
  /\ new[1].amount = amount
  /\ new[1].id \notin Ids(old)

\* payments grew by one auto-bank payment
AutoPaymentAdded(old, new) ==
  /\ Len(new) = Len(old) + 1
  /\ Tail(new) = old
  /\ new[1].note = NoteAuto

\* C1: bankedMilestones never decreases from one state to the next.
C1_CounterNeverDecreases == [][bankedMilestones' >= bankedMilestones]_vars

\* C1 witness: two milestones were banked and the profit has since gone
\* negative; the effect has re-run and left the counter at 2.
C1_Witness ==
  /\ ~pending
  /\ settings.autoBankEnabled /\ settings.targetAmount > 0
  /\ bankedMilestones = 2
  /\ availableProfitBetting < 0

\* C2: an evaluation of the auto-bank effect adds no payment and leaves
\* bankedMilestones unchanged when auto bank is disabled, or the target is
\* <= 0, or the percent is <= 0, or floor(available / target) <= counter.
C2_Guard ==
  \/ ~settings.autoBankEnabled
  \/ settings.targetAmount <= 0
  \/ settings.bankPercentOnTarget <= 0
  \/ ClaimMultiples <= bankedMilestones

C2_NoOpWhenGuarded ==
  [][(runEffects /\ C2_Guard) => (payments' = payments /\ bankedMilestones' = bankedMilestones)]_vars

\* C2 witness: enabled, counter equal to floor(available / target) >= 1, and
\* the effect has been evaluated on this state without emitting.
C2_Witness ==
  /\ ~pending
  /\ settings.autoBankEnabled /\ settings.targetAmount > 0 /\ settings.bankPercentOnTarget > 0
  /\ bankedMilestones >= 1
  /\ ClaimMultiples = bankedMilestones
  /\ payments = <<>>

\* C3 (as stated): when enabled, target > 0, percent > 0 and multiples >
\* counter, one evaluation emits exactly one Betting payment of
\* round2(perMilestone * (multiples - counter)) and sets the counter to multiples.
C3_Precondition ==
  /\ settings.autoBankEnabled
  /\ settings.targetAmount > 0
  /\ settings.bankPercentOnTarget > 0
  /\ ClaimMultiples > bankedMilestones

C3_Effect ==
  /\ OnePaymentAdded(payments, payments', "Betting",
                     ClaimPerMilestone * (ClaimMultiples - bankedMilestones))
  /\ bankedMilestones' = ClaimMultiples

C3_Original == [][(runEffects /\ C3_Precondition) => C3_Effect]_vars

\* C3 (amended): the same, provided the total to bank is > 0; when it rounds
\* to 0 the evaluation changes neither payments nor the counter.
C3_FiresWhenTotalPositive ==
  [][(runEffects /\ C3_Precondition) =>
       IF ClaimPerMilestone * (ClaimMultiples - bankedMilestones) > 0
       THEN C3_Effect
       ELSE payments' = payments /\ bankedMilestones' = bankedMilestones]_vars

\* C3 witness: target 100.00, percent 50, available was 250.00: one auto
\* payment of 100.00 and the counter at 2.
C3_Witness ==
  /\ settings.targetAmount = 10000 /\ settings.bankPercentOnTarget = 50
  /\ Len(payments) = 1
  /\ payments[1].note = NoteAuto /\ payments[1].amount = 10000
  /\ stats.profit = 25000
  /\ bankedMilestones = 2

\* C4: in every step, and between any two successive snapshots written by the
\* save effect, an auto-bank payment is added exactly when bankedMilestones
\* changes.
C4_AtomicCommit ==
  [][/\ AutoPaymentAdded(payments, payments') <=> (bankedMilestones' # bankedMilestones)
     /\ AutoPaymentAdded(saved.payments, saved'.payments)
          <=> (saved'.bankedMilestones # saved.bankedMilestones)]_vars

\* C4 witness: a written snapshot that holds the auto-bank payment and the
\* advanced counter.
C4_Witness ==
  /\ saved.bankedMilestones = 2
  /\ Len(saved.payments) = 1
  /\ saved.payments[1].note = NoteAuto

\* C5: the ranges (oldCounter, newCounter] of the emissions are disjoint, they
\* reach up to bankedMilestones and their sizes sum to bankedMilestones (the
\* counter starts at 0): every milestone index in 1..bankedMilestones was
\* counted in exactly one emission.
C5_ExactlyOnce ==
  /\ emissions.disjoint
  /\ emissions.top = bankedMilestones
  /\ emissions.total = bankedMilestones

\* C5 witness: milestones 1 and 2 are banked, the latest firing covered one
\* milestone only (an earlier one covered the other), and an emitted payment
\* has been deleted since.
C5_Witness ==
  /\ emissions.total = 2
  /\ bankedMilestones = 2
  /\ settings.targetAmount = 10000 /\ settings.bankPercentOnTarget = 50
  /\ Len(payments) = 1
  /\ payments[1].note = NoteAuto /\ payments[1].amount = 5000
  /\ fresh.phase = "fired"

\* C6: removePayment leaves bankedMilestones unchanged, and the evaluation
\* that follows the deletion of the payment a firing just emitted adds no
\* payment and leaves the counter unchanged.
C6_DeleteDoesNotUnfire ==
  [][/\ (\E id \in Ids(payments) : removePayment(id)) => bankedMilestones' = bankedMilestones
     /\ (runEffects /\ fresh.phase = "deleted")
          => (payments' = payments /\ bankedMilestones' = bankedMilestones)]_vars

\* C6 witness: the just-emitted payment was deleted and the effect has re-run.
C6_Witness ==
  /\ fresh.phase = "reevaluated"
  /\ bankedMilestones > 0
  /\ payments = <<>>

\* C7: bankFromBettingNow adds exactly one Betting payment of perMilestone
\* if perMilestone > 0 and available >= perMilestone, otherwise leaves
\* payments unchanged; it never changes bankedMilestones.
C7_BankNow ==
  [][bankFromBettingNow =>
       /\ IF ClaimPerMilestone > 0 /\ availableProfitBetting >= ClaimPerMilestone
          THEN OnePaymentAdded(payments, payments', "Betting", ClaimPerMilestone)
          ELSE payments' = payments
       /\ bankedMilestones' = bankedMilestones]_vars

\* C7 witness: a manual payment of the per-milestone amount is listed while
\* the counter is still 0.
C7_Witness ==
  /\ payments # <<>>
  /\ payments[1].note = NoteManual
  /\ payments[1].amount = ClaimPerMilestone
  /\ bankedMilestones = 0

\* C8: the auto-bank payment is earmarked to settings.autoBankCardId when
\* set, otherwise to the first card of the list, otherwise to no card.
C8_Earmark ==
  [][(runEffects /\ AutoPaymentAdded(payments, payments')) =>
       payments'[1].cardId =
         (IF settings.autoBankCardId # Null THEN settings.autoBankCardId
          ELSE IF cards # <<>> THEN cards[1].id
          ELSE Null)]_vars

\* C8 witness: two cards, no auto-bank card selected, and the auto payment
\* went to the first (newest) card.
C8_Witness ==
  /\ Len(cards) = 2
  /\ settings.autoBankCardId = Null
  /\ payments # <<>>
  /\ payments[1].note = NoteAuto
  /\ payments[1].cardId = cards[1].id
  /\ fresh.phase = "fired"

\* C9: every bet whose status is Pending has settledAt = null.
C9_PendingHasNoSettledAt ==
  \A i \in DOMAIN bets : bets[i].status = "Pending" => bets[i].settledAt = Null

\* C10: effectiveReturn is the override whenever it is non-null (0
\* included), otherwise round2(stake * odds) when Won, 0 when Lost, null
\* when Pending.
C10_Expected(b) ==
  IF b.returnOverride # Null THEN b.returnOverride
  ELSE IF b.status = "Won" THEN Round2(b.stake * b.oddsDecimal)
  ELSE IF b.status = "Lost" THEN 0
  ELSE Null

C10_EffectiveReturn ==
  \A i \in DOMAIN bets : effectiveReturn(bets[i]) = C10_Expected(bets[i])

\* C10 witness: a Won bet whose override is 0.
C10_Witness ==
  \E i \in DOMAIN bets :
    /\ bets[i].status = "Won"
    /\ bets[i].returnOverride = 0
    /\ effectiveReturn(bets[i]) = 0

\* C11: computeStats counts and sums the settled bets only: settledCount and
\* wonCount are the numbers of settled and of Won bets, totalStaked the sum of
\* the settled stakes, totalReturns the sum of the settled bets' effective
\* returns, profit their difference to 2 decimals; and adding, removing or
\* re-pricing a Pending bet changes none of these outputs.
RECURSIVE C11_Sum(_, _, _)
C11_Sum(bs, n, returns) ==
  IF n = 0 THEN 0
  ELSE C11_Sum(bs, n - 1, returns)
       + (IF bs[n].status = "Pending" THEN 0
          ELSE IF returns THEN C10_Expected(bs[n]) ELSE bs[n].stake)

C11_Outputs(bs) ==
  [settledCount |-> Cardinality({i \in DOMAIN bs : bs[i].status \in {"Won", "Lost"}}),
   wonCount |-> Cardinality({i \in DOMAIN bs : bs[i].status = "Won"}),
   totalStaked |-> C11_Sum(bs, Len(bs), FALSE),
   totalReturns |-> C11_Sum(bs, Len(bs), TRUE),
   profit |-> Round2(100 * (C11_Sum(bs, Len(bs), TRUE) - C11_Sum(bs, Len(bs), FALSE)))]

C11_Shown(st) ==
  [settledCount |-> st.settledCount, wonCount |-> st.wonCount,
   totalStaked |-> st.totalStaked, totalReturns |-> st.totalReturns,
   profit |-> st.profit]

C11_IsPending(id) == \E i \in DOMAIN bets : bets[i].id = id /\ bets[i].status = "Pending"

\* a step that adds a Pending bet, re-prices one or removes one (the length
\* tests only tell the three handlers apart before they are evaluated)
C11_PendingStep ==
  \/ /\ Len(bets') > Len(bets)
     /\ \E d \in Descriptions, f \in StatsForms, o \in FormOverrides :
          addBet(d, f, "Pending", o)
  \/ /\ Len(bets') = Len(bets)
     /\ \E id \in Ids(bets), o \in EditorOverrides :
          C11_IsPending(id) /\ saveReturnEditor(id, o)
  \/ /\ Len(bets') < Len(bets)
     /\ \E id \in Ids(bets) : C11_IsPending(id) /\ removeBet(id)

C11_SettledOnly ==
  /\ [](C11_Shown(stats) = C11_Outputs(bets))
  /\ [][C11_PendingStep => stats' = stats]_vars

C11_Witness ==
  /\ ~pending
  /\ \E i \in DOMAIN bets : bets[i].status = "Pending" /\ bets[i].returnOverride = 5000
  /\ \E i \in DOMAIN bets : bets[i].status = "Won"
  /\ stats.settledCount = 1
  /\ stats.totalReturns < 5000

\* C12: computeStats.progress is round(profit / targetAmount * 100) clamped to
\* 0..100 when targetAmount > 0 and 0 when targetAmount <= 0: 100 for a profit
\* beyond the target, 0 for a net loss, never negative.
C12_Expected(profit, target) ==
  IF target <= 0 THEN 0
  ELSE IF 200 * profit < target THEN 0
  ELSE IF 200 * profit >= 199 * target THEN 100
  ELSE CHOOSE r \in 1..99 : (2 * r - 1) * target <= 200 * profit
                             /\ 200 * profit < (2 * r + 1) * target

C12_Progress ==
  /\ stats.progress = C12_Expected(stats.profit, settings.targetAmount)
  /\ stats.progress \in 0..100
  /\ stats.profit < 0 => stats.progress = 0
  /\ settings.targetAmount > 0 /\ stats.profit > settings.targetAmount => stats.progress = 100

\* a progress that was rounded, not clamped: 49.95 percent shown as 50
C12_Witness ==
  /\ ~pending
  /\ settings.targetAmount = 10000
  /\ stats.profit = 4995
  /\ stats.progress = 50

\* C13: computeStats.hitRate is round(wonCount / settledCount * 100) when a bet
\* is settled and 0 when none is, the empty list included; it is in 0..100.
C13_Expected(won, settled) ==
  IF settled = 0 THEN 0
  ELSE CHOOSE r \in 0..100 : (2 * r - 1) * settled <= 200 * won
                               /\ 200 * won < (2 * r + 1) * settled

C13_HitRate ==
  LET settled == Cardinality({i \in DOMAIN bets : bets[i].status # "Pending"})
      won == Cardinality({i \in DOMAIN bets : bets[i].status = "Won"})
  IN /\ stats.hitRate = C13_Expected(won, settled)
     /\ stats.hitRate \in 0..100
     /\ settled = 0 => stats.hitRate = 0

\* no bet settled although bets are listed
C13_Witness ==
  /\ bets # <<>>
  /\ \A i \in DOMAIN bets : bets[i].status = "Pending"
  /\ stats.hitRate = 0
  /\ ~pending

\* C14: with at least one card, the total debt is the sum of the card
\* balances (settings.debtTotal is ignored) and the remaining debt is the sum
\* over the cards of max(0, balance - payments earmarked to that card); a
\* payment earmarked to one card, however large, leaves that card's remaining
\* at 0 or above and every other card's remaining unchanged.
RECURSIVE C14_PaidTo(_, _, _)
C14_PaidTo(pays, n, id) ==
  IF n = 0 THEN 0
  ELSE C14_PaidTo(pays, n - 1, id) + (IF pays[n].cardId = id THEN pays[n].amount ELSE 0)

C14_RemainingOf(c, pays) ==
  LET left == c.balance - C14_PaidTo(pays, Len(pays), c.id)
  IN IF left > 0 THEN left ELSE 0

RECURSIVE C14_Balances(_, _)
C14_Balances(cs, n) == IF n = 0 THEN 0 ELSE C14_Balances(cs, n - 1) + cs[n].balance

RECURSIVE C14_Remaining(_, _, _)
C14_Remaining(cs, n, pays) ==
  IF n = 0 THEN 0 ELSE C14_Remaining(cs, n - 1, pays) + C14_RemainingOf(cs[n], pays)

C14_EarmarkedStep(id) ==
  /\ Len(payments') > Len(payments)
  /\ \E a \in DebtAmounts, src \in DebtSources : quickBank(a, src, id)

C14_CardMode ==
  /\ [](cards # <<>> =>
          /\ debtTotalEffective = C14_Balances(cards, Len(cards))
          /\ remainingTotal = C14_Remaining(cards, Len(cards), payments)
          /\ \A i \in DOMAIN cards :
               cardRemaining(cards[i]) = C14_RemainingOf(cards[i], payments))
  /\ [][\A id \in Ids(cards) :
          C14_EarmarkedStep(id) =>
            \A i \in DOMAIN cards :
              /\ C14_RemainingOf(cards[i], payments') >= 0
              /\ cards[i].id # id =>
                   C14_RemainingOf(cards[i], payments') = C14_RemainingOf(cards[i], payments)]_vars

\* two cards, one over-paid and shown at 0, the other still owing its balance
C14_Witness ==
  /\ ~pending
  /\ Len(cards) = 2
  /\ \E i, j \in DOMAIN cards :
       /\ cards[i].balance > 0
       /\ paidToCard(cards[i]) > cards[i].balance
       /\ cardRemaining(cards[i]) = 0
       /\ cards[j].balance > 0
       /\ remainingTotal = cards[j].balance
  /\ settings.debtTotal = 20000

\* C15: with no card listed, the total debt is settings.debtTotal and the
\* remaining debt is max(0, debtTotal - the sum of all payments), whatever
\* their source or cardId.
RECURSIVE C15_AllPaid(_, _)
C15_AllPaid(pays, n) == IF n = 0 THEN 0 ELSE C15_AllPaid(pays, n - 1) + pays[n].amount

C15_LegacyMode ==
  cards = <<>> =>
    /\ debtTotalEffective = settings.debtTotal
    /\ remainingTotal =
         (IF settings.debtTotal - C15_AllPaid(payments, Len(payments)) > 0
          THEN settings.debtTotal - C15_AllPaid(payments, Len(payments)) ELSE 0)

\* no card is left, the one payment still names the card it was banked to
C15_Witness ==
  /\ ~pending
  /\ cards = <<>>
  /\ settings.debtTotal = 20000
  /\ \E i \in DOMAIN payments : payments[i].cardId # Null /\ payments[i].amount = 5000
  /\ remainingTotal = 15000

\* C16: with at least one card, banking a payment that names no card leaves
\* every card's remaining unchanged and raises the paid figure shown
\* (total debt - remaining debt).
C16_UnearmarkedStep ==
  /\ Len(payments') > Len(payments)
  /\ \E a \in DebtAmounts, src \in DebtSources : quickBank(a, src, Null)

C16_UnearmarkedCountsAsPaid ==
  [][(cards # <<>> /\ C16_UnearmarkedStep) =>
       /\ \A i \in DOMAIN cards :
            C14_RemainingOf(cards[i], payments') = C14_RemainingOf(cards[i], payments)
       /\ paidShown' > paidShown]_vars

\* C17: every listed card's balance is >= 0 in every state the card
\* operations (add, inline name and balance edit, remove) reach.
C17_BalanceNeverNegative == \A i \in DOMAIN cards : cards[i].balance >= 0

\* C18: removing a card changes the cards list only: the payments (those
\* banked to the removed card included), settings.autoBankCardId, the bets and
\* bankedMilestones are as they were before the removal.
C18_RemoveStep(id) == ~pending /\ id \in Ids(cards) /\ id \notin Ids(cards')

C18_RemoveCardFrame ==
  [][\A id \in Ids(cards) :
       C18_RemoveStep(id) =>
         /\ payments' = payments
         /\ settings'.autoBankCardId = settings.autoBankCardId
         /\ settings' = settings
         /\ bets' = bets
         /\ bankedMilestones' = bankedMilestones
         /\ Ids(cards') = Ids(cards) \ {id}]_vars

\* a card has just been removed (the effects have not run yet) and both a
\* payment and the auto-bank target still name it
C18_Witness ==
  /\ pending
  /\ settings.autoBankCardId # Null
  /\ settings.autoBankCardId \notin Ids(cards)
  /\ \E i \in DOMAIN payments : payments[i].cardId = settings.autoBankCardId
  /\ payments = saved.payments

\* C19: the roller progress is round((currentBankroll - runStartStake) /
\* (runTargetStake - runStartStake) * 100) clamped to 0..100 with
\* currentBankroll = startingBankroll + profit, and 0 whenever runTargetStake
\* <= runStartStake; over a proper range it is 0 at the start stake and 100 at
\* the target stake.
C19_Expected(bankroll, start, target) ==
  LET num == bankroll - start
      den == target - start
  IN IF den <= 0 THEN 0
     ELSE IF 200 * num < den THEN 0
     ELSE IF 200 * num >= 199 * den THEN 100
     ELSE CHOOSE r \in 1..99 : (2 * r - 1) * den <= 200 * num /\ 200 * num < (2 * r + 1) * den

C19_RunProgress ==
  LET bankroll == settings.startingBankroll + C11_Outputs(bets).profit
      start == settings.runStartStake
      target == settings.runTargetStake
  IN /\ currentBankroll = bankroll
     /\ runProgress = C19_Expected(bankroll, start, target)
     /\ runProgress \in 0..100
     /\ target <= start => runProgress = 0
     /\ target > start /\ bankroll = start => runProgress = 0
     /\ target > start /\ bankroll = target => runProgress = 100

\* a settled bet has moved the bankroll inside the range: 10.03 of 5..100
C19_Witness ==
  /\ ~pending
  /\ stats.profit = 3
  /\ currentBankroll = 1503
  /\ runStart = 500 /\ runTarget = 10000
  /\ runProgress = 11

\* C20: the recomputation loop ends: after a user's change the auto-bank
\* effect emits at most one payment, the evaluation its own writes trigger
\* changes nothing, and when no evaluation is outstanding it is never the case
\* that auto-bank is enabled with targetAmount > 0, bankPercentOnTarget > 0,
\* floor(availableProfitBetting / targetAmount) > bankedMilestones and a
\* positive totalToBank.
C20_FireCondition ==
  /\ settings.autoBankEnabled
  /\ settings.targetAmount > 0
  /\ settings.bankPercentOnTarget > 0
  /\ ClaimMultiples > bankedMilestones
  /\ Round2(100 * ClaimPerMilestone * (ClaimMultiples - bankedMilestones)) > 0

C20_LoopTerminates ==
  /\ [](~pending => ~C20_FireCondition)
  /\ [][runEffects =>
         /\ Len(payments') <= Len(payments) + 1
         /\ payments' = payments => ~pending'
         /\ payments' # payments => ~C20_FireCondition'
         /\ fresh.phase = "fired" =>
              (payments' = payments /\ bankedMilestones' = bankedMilestones /\ ~pending')]_vars

\* the effect has fired and been re-evaluated; the available profit is still
\* at or above the target, yet nothing more is due
C20_Witness ==
  /\ ~pending
  /\ fresh.phase = "fired"
  /\ settings.autoBankEnabled
  /\ settings.bankPercentOnTarget > 0
  /\ settings.targetAmount > 0
  /\ availableProfitBetting >= settings.targetAmount
  /\ bankedMilestones > 0

\* C21: no banking action over-draws the betting profit: every payment with
\* source Betting that the auto-bank effect, bankFromBettingNow or the Quick
\* bank button creates has an amount <= the available betting profit (profit
\* minus the Betting payments) at that moment, so the available betting profit
\* is >= 0 right after it.
RECURSIVE C21_Banked(_, _)
C21_Banked(pays, n) ==
  IF n = 0 THEN 0
  ELSE C21_Banked(pays, n - 1) + (IF pays[n].source = "Betting" THEN pays[n].amount ELSE 0)

C21_Available(bs, pays) == C11_Outputs(bs).profit - C21_Banked(pays, Len(pays))

C21_BettingPaymentCreated ==
  /\ Len(payments') = Len(payments) + 1
  /\ Tail(payments') = payments
  /\ payments'[1].source = "Betting"

C21_NoOverdraw ==
  [][C21_BettingPaymentCreated =>
       /\ payments'[1].amount > 0
       /\ payments'[1].amount <= C21_Available(bets, payments)
       /\ C21_Available(bets', payments') >= 0
       /\ availableProfitBetting' >= 0]_vars

\* a Quick bank from Betting and an auto-bank payment are both listed and the
\* available betting profit is not negative
C21_Witness ==
  /\ \E i \in DOMAIN payments : payments[i].source = "Betting" /\ payments[i].note = NoteAuto
  /\ \E i \in DOMAIN payments : payments[i].source = "Betting" /\ payments[i].note = NoteNone
  /\ bets # <<>>
  /\ availableProfitBetting >= 0

\* C22: whenever a card is listed at the moment the auto-bank effect fires,
\* the payment it emits carries the id of a card that is listed then, whatever
\* cards were added or removed and whatever auto-bank target was selected.
C22_AutoBankTargetListed ==
  [][(runEffects /\ Len(payments') > Len(payments) /\ cards # <<>>) =>
       payments'[1].cardId \in Ids(cards)]_vars

\* C23: the overview figures are consistent in every reachable state, with
\* and without cards: 0 <= remainingTotal <= debtTotalEffective, paidShown =
\* debtTotalEffective - remainingTotal is in 0..debtTotalEffective, and
\* debtProgress is in 0..100 and 0 when debtTotalEffective <= 0.
C23_OverviewConsistent ==
  /\ 0 <= remainingTotal
  /\ remainingTotal <= debtTotalEffective
  /\ paidShown = debtTotalEffective - remainingTotal
  /\ 0 <= paidShown
  /\ paidShown <= debtTotalEffective
  /\ debtProgress \in 0..100
  /\ debtTotalEffective <= 0 => debtProgress = 0

====
